---- MODULE Spec2Model ----
(***************************************************************************)
(* DataLoader of dataloader.py: the catalog built by the constructor from  *)
(* link.csv and the directory layout, the per-sample loader, and the epoch *)
(* sampler next() / reset() / size().                                      *)
(*                                                                         *)
(* Python values are represented as follows.                               *)
(*   str            a tuple of one-character strings                       *)
(*   None           the tuple <<"None">> (no str, array or tuple of the    *)
(*                  model equals it)                                       *)
(*   list           a tuple                                                *)
(*   ndarray        <<"ndarray", shape, data>>, shape a tuple of integers  *)
(*   tuple (a,b,c)  <<a, b, c>>                                            *)
(***************************************************************************)
EXTENDS Integers, Sequences, FiniteSets, TLC

VARIABLES
    link_csv,        \* rows of <base_dir>/link.csv, in file order
    disk,            \* the files below base_dir: path -> content
    call,            \* the arguments the constructor is called with
    pc,              \* "new" before the constructor ran, then "ready" or "raised"
    patients,        \* __init__'s local `patients` (kept for inspection)
    _bs,             \* self._bs
    _both_contours,  \* self._both_contours
    _pos,            \* self._pos
    _samples,        \* self._samples
    epoch,           \* the next() calls made since construction or the last reset()
    last_reset,      \* "never", or whether the last reset() "kept" or "changed" the order
    threads,         \* the calls in progress when threads share the loader: thread -> frame
    overlapped       \* a call was started while another call was in progress

vars == <<link_csv, disk, call, pc, patients, _bs, _both_contours, _pos, _samples, epoch,
          last_reset, threads, overlapped>>

None == <<"None">>

\* Bounds of the model.
MaxFrames  == 3   \* frames of a patient in the data set
MaxDefects == 1   \* frames of a patient with a file unusable, unlike the others or missing
MaxBS      == 2   \* batch_size
MaxCalls   == 5   \* next() calls followed within one epoch
MaxRows    == 2   \* rows of link.csv
MaxThreadFrames == 2   \* frames of the data set two threads share
MaxThreadCalls  == 3   \* calls the two threads make in all

(***************************************************************************)
(* Strings                                                                 *)
(***************************************************************************)

\* The characters the model's strings are made of, in code-point order.
Chars ==
    <<"*", "-", ".", "/", "0", "1", "2", "3", "4", "5", "6", "7", "8", "9",
      "I", "M", "X",
      "a", "b", "c", "d", "e", "f", "g", "h", "i", "j", "k", "l", "m", "n", "o",
      "p", "q", "r", "s", "t", "u", "v", "w", "x", "y", "z">>

ord(c) == CHOOSE i \in DOMAIN Chars : Chars[i] = c

\* a < b for two str, as Python compares them (code point by code point).
RECURSIVE str_lt(_, _)
str_lt(a, b) ==
    IF b = <<>> THEN FALSE
    ELSE IF a = <<>> THEN TRUE
    ELSE IF Head(a) = Head(b) THEN str_lt(Tail(a), Tail(b))
    ELSE ord(Head(a)) < ord(Head(b))

startswith(s, prefix) ==
    Len(prefix) <= Len(s) /\ SubSeq(s, 1, Len(prefix)) = prefix

endswith(s, suffix) ==
    Len(suffix) <= Len(s) /\ SubSeq(s, Len(s) - Len(suffix) + 1, Len(s)) = suffix

\* s.split(sep) for a one-character sep.
RECURSIVE split(_, _)
split(s, sep) ==
    IF \A i \in DOMAIN s : s[i] # sep THEN <<s>>
    ELSE LET k == CHOOSE i \in DOMAIN s :
                      s[i] = sep /\ \A j \in 1..(i - 1) : s[j] # sep
         IN  <<SubSeq(s, 1, k - 1)>> \o split(SubSeq(s, k + 1, Len(s)), sep)

\* s.lstrip(c) for a one-character c.
RECURSIVE lstrip(_, _)
lstrip(s, c) ==
    IF s # <<>> /\ Head(s) = c THEN lstrip(Tail(s), c) ELSE s

\* s.replace(old, new): every non-overlapping occurrence, left to right.
RECURSIVE replace(_, _, _)
replace(s, old, new) ==
    IF s = <<>> THEN <<>>
    ELSE IF startswith(s, old)
         THEN new \o replace(SubSeq(s, Len(old) + 1, Len(s)), old, new)
         ELSE <<Head(s)>> \o replace(Tail(s), old, new)

\* os.path.join of two components.
join2(a, b) ==
    IF startswith(b, <<"/">>) THEN b
    ELSE IF a = <<>> \/ endswith(a, <<"/">>) THEN a \o b
    ELSE a \o <<"/">> \o b

\* os.path.join.
RECURSIVE join(_)
join(parts) ==
    IF Len(parts) = 1 THEN parts[1]
    ELSE join(<<join2(parts[1], parts[2])>> \o SubSeq(parts, 3, Len(parts)))

\* os.path.basename.
basename(p) ==
    IF \A i \in DOMAIN p : p[i] # "/" THEN p
    ELSE LET k == CHOOSE i \in DOMAIN p :
                      p[i] = "/" /\ \A j \in (i + 1)..Len(p) : p[j] # "/"
         IN  SubSeq(p, k + 1, Len(p))

\* A faulty variant of sorted: the paths are put in descending order.
RECURSIVE sorted_descending(_)
sorted_descending(S) ==
    IF S = {} THEN <<>>
    ELSE LET m == CHOOSE x \in S : \A y \in S \ {x} : str_lt(y, x)
         IN  <<m>> \o sorted_descending(S \ {m})

\* sorted(S) for a set of str.
RECURSIVE sorted(_)
sorted(S) ==
    IF S = {} THEN <<>>
    ELSE LET m == CHOOSE x \in S : \A y \in S \ {x} : str_lt(x, y)
         IN  <<m>> \o sorted(S \ {m})

(***************************************************************************)
(* The file system                                                         *)
(***************************************************************************)

isfile(p) == p \in DOMAIN disk

\* glob.glob(pattern) for a pattern with one "*", in its last component.
glob(pattern) ==
    LET k      == CHOOSE i \in DOMAIN pattern : pattern[i] = "*"
        prefix == SubSeq(pattern, 1, k - 1)
        suffix == SubSeq(pattern, k + 1, Len(pattern))
    IN  { p \in DOMAIN disk :
            /\ Len(p) >= Len(prefix) + Len(suffix)
            /\ startswith(p, prefix)
            /\ endswith(p, suffix)
            /\ \A i \in (Len(prefix) + 1)..(Len(p) - Len(suffix)) : p[i] # "/"
            /\ ~startswith(basename(p), <<".">>) }

(***************************************************************************)
(* Catalog builder: DataLoader.__init__ and its two helpers                *)
(***************************************************************************)

\* String literals of dataloader.py.
s_link_csv     == <<"l", "i", "n", "k", ".", "c", "s", "v">>
s_contourfiles == <<"c", "o", "n", "t", "o", "u", "r", "f", "i", "l", "e", "s">>
s_glob_txt     == <<"i", "-", "c", "o", "n", "t", "o", "u", "r", "s", "/", "*", ".", "t", "x", "t">>
s_dicoms       == <<"d", "i", "c", "o", "m", "s">>
s_dcm          == <<".", "d", "c", "m">>
s_icontour     == <<"i", "c", "o", "n", "t", "o", "u", "r">>
s_ocontour     == <<"o", "c", "o", "n", "t", "o", "u", "r">>
s_i_contours   == <<"i", "-", "c", "o", "n", "t", "o", "u", "r", "s">>
s_o_contours   == <<"o", "-", "c", "o", "n", "t", "o", "u", "r", "s">>
s_IM           == <<"I", "M">>
s_0001         == <<"0", "0", "0", "1">>

\* The patient_subset argument: absent (None), or a collection of row positions.
NoSubset   == [given |-> FALSE, items |-> {}]
Subset(S)  == [given |-> TRUE, items |-> S]

\* A faulty variant of read_patients: the row counter starts at 1.
read_patients_one_based(rows, patient_subset) ==
    LET patient_tuples[k \in 0..Len(rows)] ==
            IF k = 0 THEN <<>>
            ELSE IF ~patient_subset.given \/ k \in patient_subset.items
                 THEN Append(patient_tuples[k - 1],
                             <<rows[k].patient_id, rows[k].original_id>>)
                 ELSE patient_tuples[k - 1]
    IN  patient_tuples[Len(rows)]

\* DataLoader.__read_patients: the (patient_id, original_id) pairs of the rows of
\* the index whose 0-based position i passes the filter, in file order.
read_patients(rows, patient_subset) ==
    LET patient_tuples[k \in 0..Len(rows)] ==
            IF k = 0 THEN <<>>
            ELSE LET i == k - 1
                 IN  IF ~patient_subset.given \/ i \in patient_subset.items
                     THEN Append(patient_tuples[k - 1],
                                 <<rows[k].patient_id, rows[k].original_id>>)
                     ELSE patient_tuples[k - 1]
    IN  patient_tuples[Len(rows)]

\* Python truth value of a str-or-None.
truthy(x) == x # None /\ x # <<>>

\* A faulty variant of assemble_one: the outer contour is not looked for.
assemble_one_unchecked(self, did, cipath) ==
    LET parts  == split(basename(cipath), "-")
        copath == IF self._both_contours
                  THEN replace(replace(cipath, s_icontour, s_ocontour),
                               s_i_contours, s_o_contours)
                  ELSE None
    IN  IF parts[1] = s_IM /\ Len(parts) < 2 THEN <<"raise">>
        ELSE IF Len(parts) < 3 THEN <<"raise">>
        ELSE LET snum  == lstrip(parts[3], "0")
                 dpath == join(<<self._base_dir, s_dicoms, did, snum \o s_dcm>>)
             IN  IF isfile(dpath) THEN <<"append", <<cipath, copath, dpath>> >>
                 ELSE <<"continue">>

\* What one pass of the inner loop of __assemble_samples does with cipath:
\* <<"raise">> (an IndexError leaves the constructor), <<"continue">> (the
\* candidate is dropped) or <<"append", sample>>.
assemble_one(self, did, cipath) ==
    LET parts  == split(basename(cipath), "-")
        copath == IF self._both_contours
                  THEN replace(replace(cipath, s_icontour, s_ocontour),
                               s_i_contours, s_o_contours)
                  ELSE None
    IN  IF parts[1] = s_IM /\ Len(parts) < 2 THEN <<"raise">>
        ELSE IF truthy(copath) /\ ~isfile(copath) THEN <<"continue">>
        ELSE IF Len(parts) < 3 THEN <<"raise">>
        ELSE LET snum  == lstrip(parts[3], "0")
                 dpath == join(<<self._base_dir, s_dicoms, did, snum \o s_dcm>>)
             IN  IF isfile(dpath) THEN <<"append", <<cipath, copath, dpath>> >>
                 ELSE <<"continue">>

\* An IndexError leaving __assemble_samples, and its normal return.
Raised      == [raised |-> TRUE, value |-> <<>>]
Returned(v) == [raised |-> FALSE, value |-> v]

\* The inner loop of __assemble_samples over the sorted paths of one patient,
\* starting from sample_tuples.
RECURSIVE assemble_patient(_, _, _, _)
assemble_patient(self, did, cipaths, sample_tuples) ==
    IF cipaths = <<>> THEN Returned(sample_tuples)
    ELSE LET r == assemble_one(self, did, Head(cipaths))
         IN  IF r[1] = "raise" THEN Raised
             ELSE assemble_patient(self, did, Tail(cipaths),
                      IF r[1] = "append" THEN Append(sample_tuples, r[2])
                      ELSE sample_tuples)

\* The outer loop of __assemble_samples, starting from sample_tuples.
RECURSIVE assemble_from(_, _, _)
assemble_from(self, patient_tuples, sample_tuples) ==
    IF patient_tuples = <<>> THEN Returned(sample_tuples)
    ELSE LET did == Head(patient_tuples)[1]
             cid == Head(patient_tuples)[2]
             icontours_paths ==
                 glob(join(<<self._base_dir, s_contourfiles, cid, s_glob_txt>>))
             r   == assemble_patient(self, did, sorted(icontours_paths), sample_tuples)
         IN  IF r.raised THEN Raised
             ELSE assemble_from(self, Tail(patient_tuples), r.value)

\* DataLoader.__assemble_samples.
assemble_samples(self, patient_tuples) == assemble_from(self, patient_tuples, <<>>)

\* DataLoader.__init__.
Construct ==
    /\ pc = "new"
    /\ LET self == [_base_dir |-> call.base_dir,
                    _both_contours |-> (call.both_contours = "True")]
           ps   == read_patients(link_csv, call.patient_subset)
           ss   == assemble_samples(self, ps)
       IN  /\ _bs' = call.batch_size
           /\ _both_contours' = self._both_contours
           /\ _pos' = 0
           /\ patients' = ps
           /\ IF ss.raised
              THEN pc' = "raised" /\ _samples' = None
              ELSE pc' = "ready" /\ _samples' = ss.value
    /\ epoch' = <<>>
    /\ UNCHANGED <<last_reset, link_csv, disk, call, threads, overlapped>>

(***************************************************************************)
(* The parsing module (parse_dicom_file, parse_contour_file, poly_to_mask) *)
(* and numpy.stack, which dataloader.py calls                              *)
(***************************************************************************)

\* File contents: a decodable DICOM image of a shape (height, width), a file
\* the decoder rejects, and a contour file with its coordinate list.
DicomFile(shape)    == [kind |-> "dicom", shape |-> shape, coords |-> <<>>]
CorruptFile         == [kind |-> "corrupt", shape |-> <<>>, coords |-> <<>>]
ContourFile(coords) == [kind |-> "contour", shape |-> <<>>, coords |-> coords]

ndarray(shape, data) == <<"ndarray", shape, data>>
shape_of(a) == IF a = None THEN <<>> ELSE a[2]

\* parsing.parse_dicom_file: a dict holding the pixel array, None for a file
\* that cannot be decoded.
parse_dicom_file(filename) ==
    IF disk[filename].kind = "dicom"
    THEN <<"dict", ndarray(disk[filename].shape, filename)>>
    ELSE None

\* parsing.parse_contour_file: the list of (x, y) coordinates of the file.
parse_contour_file(filename) == disk[filename].coords

\* parsing.poly_to_mask: a boolean mask of shape (height, width).
poly_to_mask(polygon, width, height) == ndarray(<<height, width>>, polygon)

\* numpy.stack(arrays): a ValueError for an empty list and for arrays that do
\* not all have one shape.
np_stack(arrays) ==
    IF arrays = <<>> \/ \E i, j \in DOMAIN arrays : shape_of(arrays[i]) # shape_of(arrays[j])
    THEN Raised
    ELSE Returned(ndarray(<<Len(arrays)>> \o shape_of(arrays[1]), arrays))

(***************************************************************************)
(* Sample loader: DataLoader.__load_sample                                 *)
(***************************************************************************)

\* A faulty variant of load_sample: width and height are handed over in the other order.
load_sample_swapped(cipath, copath, dpath) ==
    LET dcm_dict == parse_dicom_file(dpath)
    IN  IF dcm_dict = None
        THEN [ret |-> <<None, None, None>>, parsed |-> <<dpath>>]
        ELSE
        LET img   == dcm_dict[2]
            inner == parse_contour_file(cipath)
        IN  IF Len(inner) = 0
            THEN [ret |-> <<None, None, None>>, parsed |-> <<dpath, cipath>>]
            ELSE
            LET imask == poly_to_mask(inner, shape_of(img)[1], shape_of(img)[2])
            IN  IF truthy(copath)
                THEN LET outer == parse_contour_file(copath)
                     IN  IF Len(outer) = 0
                         THEN [ret |-> <<None, None, None>>,
                               parsed |-> <<dpath, cipath, copath>>]
                         ELSE [ret |-> <<img, imask,
                                         poly_to_mask(outer, shape_of(img)[1],
                                                      shape_of(img)[2])>>,
                               parsed |-> <<dpath, cipath, copath>>]
                ELSE [ret |-> <<img, imask, None>>, parsed |-> <<dpath, cipath>>]

\* The value returned, with the files handed to the parsing module on the way.
load_sample(cipath, copath, dpath) ==
    LET dcm_dict == parse_dicom_file(dpath)
    IN  IF dcm_dict = None
        THEN [ret |-> <<None, None, None>>, parsed |-> <<dpath>>]
        ELSE
        LET img   == dcm_dict[2]
            inner == parse_contour_file(cipath)
        IN  IF Len(inner) = 0
            THEN [ret |-> <<None, None, None>>, parsed |-> <<dpath, cipath>>]
            ELSE
            LET imask == poly_to_mask(inner, shape_of(img)[2], shape_of(img)[1])
            IN  IF truthy(copath)
                THEN LET outer == parse_contour_file(copath)
                     IN  IF Len(outer) = 0
                         THEN [ret |-> <<None, None, None>>,
                               parsed |-> <<dpath, cipath, copath>>]
                         ELSE [ret |-> <<img, imask,
                                         poly_to_mask(outer, shape_of(img)[2],
                                                      shape_of(img)[1])>>,
                               parsed |-> <<dpath, cipath, copath>>]
                ELSE [ret |-> <<img, imask, None>>, parsed |-> <<dpath, cipath>>]

(***************************************************************************)
(* Epoch sampler: DataLoader.size, next and reset                          *)
(***************************************************************************)

\* A faulty variant of size: the samples left in the epoch are counted.
size_remaining == Len(_samples) - _pos

\* DataLoader.size.
size == Len(_samples)

\* A faulty variant of epoch_done: the epoch is taken to be done one descriptor early.
epoch_done_early(pos) == pos >= Len(_samples) - 1

\* `self._pos >= len(self._samples)`: the epoch is done.
epoch_done(pos) == pos >= Len(_samples)

\* A faulty variant of fetch: the cursor is not used to index the catalog.
fetch_first(pos) == _samples[1]

\* `self._samples[self._pos]`: the descriptor under the cursor.
fetch(pos) == _samples[pos + 1]

\* A faulty variant of skipped: a failed load is appended like any other.
skipped_never(img) == FALSE

\* `img is None`: the sample was read incorrectly and is moved over.
skipped(img) == img = None

\* A faulty variant of advance: the cursor is moved by two.
advance_two(pos) == pos + 2

\* `self._pos + 1`: the cursor moved over one descriptor.
advance(pos) == pos + 1

\* The while loop of next() from cursor pos with the three lists as given:
\* where it leaves the cursor, whether it left because the epoch was done, the
\* lists, and the loads it made.
RECURSIVE next_loop(_, _, _, _, _)
next_loop(pos, images, imasks, omasks, loads) ==
    IF Len(images) = _bs
    THEN [pos |-> pos, done |-> FALSE, images |-> images, imasks |-> imasks,
          omasks |-> omasks, loads |-> loads]
    ELSE IF epoch_done(pos)
    THEN [pos |-> pos, done |-> TRUE, images |-> images, imasks |-> imasks,
          omasks |-> omasks, loads |-> loads]
    ELSE LET s == fetch(pos)
             l == load_sample(s[1], s[2], s[3])
             e == [at |-> pos, sample |-> s, ret |-> l.ret, parsed |-> l.parsed]
         IN  IF skipped(l.ret[1])
             THEN next_loop(advance(pos), images, imasks, omasks, Append(loads, e))
             ELSE next_loop(advance(pos), Append(images, l.ret[1]), Append(imasks, l.ret[2]),
                            Append(omasks, l.ret[3]), Append(loads, e))

\* A faulty variant of next_return: the ValueError is not turned into None.
next_return_unchecked(images, imasks, omasks) ==
    <<np_stack(images).value, np_stack(imasks).value,
      IF _both_contours THEN np_stack(omasks).value ELSE None>>

\* A faulty variant of next_return: the outer masks are left out of the batch.
next_return_inner_only(images, imasks, omasks) ==
    LET a == np_stack(images)
        b == np_stack(imasks)
    IN  IF a.raised \/ b.raised THEN None
        ELSE <<a.value, b.value, None>>

\* The try block of next(): the stacked lists, None on a ValueError.
next_return(images, imasks, omasks) ==
    LET a == np_stack(images)
        b == np_stack(imasks)
        c == IF _both_contours THEN np_stack(omasks) ELSE Returned(None)
    IN  IF a.raised \/ b.raised \/ c.raised THEN None
        ELSE <<a.value, b.value, c.value>>

\* A faulty variant of done_return: an incomplete batch is returned, not skipped.
done_return_partial(images, imasks, omasks) ==
    IF Len(images) > 0 THEN next_return(images, imasks, omasks) ELSE None

\* What next() returns when the epoch is done, whatever the lists hold.
done_return(images, imasks, omasks) == None

\* A faulty variant of Next: a call that finds the epoch done rewinds the cursor.
Next_rewinding ==
    /\ pc = "ready"
    /\ Len(epoch) < MaxCalls
    /\ LET w   == next_loop(_pos, <<>>, <<>>, <<>>, <<>>)
           ret == IF w.done THEN done_return(w.images, w.imasks, w.omasks)
                  ELSE next_return(w.images, w.imasks, w.omasks)
       IN  /\ _pos' = IF w.done THEN 0 ELSE w.pos
           /\ epoch' = Append(epoch, [ret |-> ret, loads |-> w.loads])
    /\ UNCHANGED <<last_reset, link_csv, disk, call, pc, patients, _bs, _both_contours, _samples,
                   threads, overlapped>>

\* DataLoader.next.
Next ==
    /\ pc = "ready"
    /\ Len(epoch) < MaxCalls
    /\ LET w   == next_loop(_pos, <<>>, <<>>, <<>>, <<>>)
           ret == IF w.done THEN done_return(w.images, w.imasks, w.omasks)
                  ELSE next_return(w.images, w.imasks, w.omasks)
       IN  /\ _pos' = w.pos
           /\ epoch' = Append(epoch, [ret |-> ret, loads |-> w.loads])
    /\ UNCHANGED <<last_reset, link_csv, disk, call, pc, patients, _bs, _both_contours, _samples,
                   threads, overlapped>>

\* The lists that hold each element of the set S once.
RECURSIVE orders(_)
orders(S) ==
    IF S = {} THEN {<<>>}
    ELSE UNION { { <<x>> \o t : t \in orders(S \ {x}) } : x \in S }

\* A faulty variant of shuffles: the order the list is in is never drawn.
shuffles_changed(l) == { [i \in DOMAIN l |-> l[o[i]]] : o \in orders(DOMAIN l) } \ {l}

\* A faulty variant of shuffles: the list is resampled with replacement.
shuffles_resampled(l) == { [i \in DOMAIN l |-> l[f[i]]] : f \in [DOMAIN l -> DOMAIN l] }

\* The orders a list can be put in.
shuffles(l) == { [i \in DOMAIN l |-> l[o[i]]] : o \in orders(DOMAIN l) }

\* DataLoader.reset: random.shuffle can leave the list in any order.
Reset ==
    /\ pc = "ready"
    /\ _samples' \in shuffles(_samples)
    /\ _pos' = 0
    /\ epoch' = <<>>
    /\ last_reset' = IF _samples' = _samples THEN "kept" ELSE "changed"
    /\ UNCHANGED <<link_csv, disk, call, pc, patients, _bs, _both_contours,
                   threads, overlapped>>

(***************************************************************************)
(* next() and reset() called by two threads on one loader, with no lock:   *)
(* a thread can be preempted between any two reads or writes of self._pos  *)
(* and self._samples. Each action below is one such read or write with the *)
(* thread-local work around it. random.shuffle and the loading of one      *)
(* sample are taken as one step each.                                      *)
(***************************************************************************)

Threads == {1, 2}

\* The samples a call's loads gave, in order: their images (f = 1), inner masks
\* (f = 2) or outer masks (f = 3).
RECURSIVE given(_, _)
given(loads, f) ==
    IF loads = <<>> THEN <<>>
    ELSE IF Head(loads).ret[1] = None THEN given(Tail(loads), f)
    ELSE <<Head(loads).ret[f]>> \o given(Tail(loads), f)

\* The frame of a thread that is in no call, having made `calls` calls, one of
\* which ended with an IndexError if `raised`.
idle_frame(calls, raised) ==
    [tpc |-> "idle", loads |-> <<>>, at |-> 0, cur |-> <<>>, tmp |-> 0,
     calls |-> calls, raised |-> raised]

busy(t) == threads[t].tpc # "idle"

\* The calls a thread makes: the first thread calls next(), the second one
\* next() or reset().
calls_of(t) == IF t = 1 THEN {"n_check"} ELSE {"n_check", "r_shuffle"}

\* A thread calls next() or reset().
thread_call(t) ==
    /\ pc = "ready"
    /\ threads[t].tpc = "idle"
    /\ threads[1].calls + threads[2].calls < MaxThreadCalls
    /\ \E op \in calls_of(t) :
           threads' = [threads EXCEPT ![t].tpc = op, ![t].calls = @ + 1]
    /\ overlapped' = (overlapped \/ \E u \in Threads \ {t} : busy(u))
    /\ UNCHANGED <<last_reset, link_csv, disk, call, pc, patients, _bs, _both_contours, _pos,
                   _samples, epoch>>

\* next(): the test of the while loop and, with the batch full, the try block;
\* otherwise the test `self._pos >= len(self._samples)` and its return.
next_check(t) ==
    /\ threads[t].tpc = "n_check"
    /\ LET th     == threads[t]
           images == given(th.loads, 1)
           imasks == given(th.loads, 2)
           omasks == given(th.loads, 3)
       IN  IF Len(images) = _bs
           THEN /\ epoch' = Append(epoch, [ret |-> next_return(images, imasks, omasks),
                                           loads |-> th.loads])
                /\ threads' = [threads EXCEPT ![t] = idle_frame(th.calls, th.raised)]
           ELSE IF epoch_done(_pos)
           THEN /\ epoch' = Append(epoch, [ret |-> done_return(images, imasks, omasks),
                                           loads |-> th.loads])
                /\ threads' = [threads EXCEPT ![t] = idle_frame(th.calls, th.raised)]
           ELSE /\ epoch' = epoch
                /\ threads' = [threads EXCEPT ![t].tpc = "n_fetch"]
    /\ UNCHANGED <<last_reset, link_csv, disk, call, pc, patients, _bs, _both_contours, _pos,
                   _samples, overlapped>>

\* next(): self._pos is read for `self._samples[self._pos]`.
next_fetch(t) ==
    /\ threads[t].tpc = "n_fetch"
    /\ threads' = [threads EXCEPT ![t].tpc = "n_item", ![t].at = _pos]
    /\ UNCHANGED <<last_reset, link_csv, disk, call, pc, patients, _bs, _both_contours, _pos,
                   _samples, epoch, overlapped>>

\* next(): the list is indexed, which raises an IndexError behind its end, and
\* the sample is loaded.
next_item(t) ==
    /\ threads[t].tpc = "n_item"
    /\ LET th == threads[t]
       IN  IF th.at >= Len(_samples)
           THEN threads' = [threads EXCEPT ![t] = idle_frame(th.calls, TRUE)]
           ELSE LET s == fetch(th.at)
                    l == load_sample(s[1], s[2], s[3])
                    e == [at |-> th.at, sample |-> s, ret |-> l.ret, parsed |-> l.parsed]
                IN  threads' = [threads EXCEPT ![t].tpc = "n_inc_read", ![t].cur = <<e>>]
    /\ UNCHANGED <<last_reset, link_csv, disk, call, pc, patients, _bs, _both_contours, _pos,
                   _samples, epoch, overlapped>>

\* next(): self._pos is read for `self._pos = self._pos + 1`.
next_inc_read(t) ==
    /\ threads[t].tpc = "n_inc_read"
    /\ threads' = [threads EXCEPT ![t].tpc = "n_inc_write", ![t].tmp = _pos]
    /\ UNCHANGED <<last_reset, link_csv, disk, call, pc, patients, _bs, _both_contours, _pos,
                   _samples, epoch, overlapped>>

\* next(): self._pos is written, and the sample is appended to the lists unless
\* it was read incorrectly.
next_inc_write(t) ==
    /\ threads[t].tpc = "n_inc_write"
    /\ _pos' = advance(threads[t].tmp)
    /\ threads' = [threads EXCEPT ![t].tpc = "n_check",
                                  ![t].loads = Append(@, threads[t].cur[1]),
                                  ![t].cur = <<>>, ![t].tmp = 0, ![t].at = 0]
    /\ UNCHANGED <<last_reset, link_csv, disk, call, pc, patients, _bs, _both_contours,
                   _samples, epoch, overlapped>>

\* reset(): random.shuffle(self._samples).
reset_shuffle(t) ==
    /\ threads[t].tpc = "r_shuffle"
    /\ _samples' \in shuffles(_samples)
    /\ threads' = [threads EXCEPT ![t].tpc = "r_pos"]
    /\ UNCHANGED <<last_reset, link_csv, disk, call, pc, patients, _bs, _both_contours, _pos,
                   epoch, overlapped>>

\* reset(): self._pos = 0; the calls that return from here on belong to the new
\* epoch.
reset_pos(t) ==
    /\ threads[t].tpc = "r_pos"
    /\ _pos' = 0
    /\ epoch' = <<>>
    /\ threads' = [threads EXCEPT ![t] = idle_frame(threads[t].calls, threads[t].raised)]
    /\ UNCHANGED <<last_reset, link_csv, disk, call, pc, patients, _bs, _both_contours,
                   _samples, overlapped>>

(***************************************************************************)
(* Data sets the loader is constructed over                                *)
(***************************************************************************)

base_dir == <<"d">>

digit(k) == Chars[ord("0") + k]

\* '{:04d}'.format(n) and '{:d}'.format(n), for 0 < n < 10000.
fmt_04d(n) ==
    <<digit(n \div 1000), digit((n \div 100) % 10), digit((n \div 10) % 10), digit(n % 10)>>
fmt_d(n) ==
    LET s == fmt_04d(n)
        k == CHOOSE i \in 1..4 : s[i] # "0" /\ \A j \in 1..(i - 1) : s[j] = "0"
    IN  SubSeq(s, k, 4)

\* The k-th frame of a patient has frame number 10 k.
FrameNo(k) == 10 * k

\* The k-th row of the index: the patient's DICOM and contour directory names.
Row(k) == [patient_id |-> <<"p", digit(k)>>, original_id |-> <<"c", digit(k)>>]

s_manual_txt == <<"-", "m", "a", "n", "u", "a", "l", ".", "t", "x", "t">>

\* The three files of a frame, named as the data set names them.
inner_path(cid, n) ==
    base_dir \o <<"/">> \o s_contourfiles \o <<"/">> \o cid \o <<"/">> \o s_i_contours
        \o <<"/">> \o s_IM \o <<"-">> \o s_0001 \o <<"-">> \o fmt_04d(n) \o <<"-">>
        \o s_icontour \o s_manual_txt
outer_path(cid, n) ==
    base_dir \o <<"/">> \o s_contourfiles \o <<"/">> \o cid \o <<"/">> \o s_o_contours
        \o <<"/">> \o s_IM \o <<"-">> \o s_0001 \o <<"-">> \o fmt_04d(n) \o <<"-">>
        \o s_ocontour \o s_manual_txt
dicom_path(did, n) ==
    base_dir \o <<"/">> \o s_dicoms \o <<"/">> \o did \o <<"/">> \o fmt_d(n) \o s_dcm

\* Contents of the files of a data set.
Shape     == <<2, 3>>
OddShape  == <<3, 2>>
InnerPoly(k) == << <<k, 1>>, <<k + 1, 1>>, <<k, 2>> >>
OuterPoly(k) == << <<k, 0>>, <<k + 2, 0>>, <<k, 3>> >>

\* The files (path, content) of one frame of a patient, by the state the frame
\* is in: "good", or with one of its files unusable, unlike the others or missing.
FrameKinds == {"good", "corrupt", "odd_shape", "empty_inner", "empty_outer", "no_outer"}

frame_files(row, k, kind) ==
    LET n == FrameNo(k)
    IN  { <<dicom_path(row.patient_id, n),
            CASE kind = "corrupt"   -> CorruptFile
              [] kind = "odd_shape" -> DicomFile(OddShape)
              [] OTHER              -> DicomFile(Shape)>>,
          <<inner_path(row.original_id, n),
            ContourFile(IF kind = "empty_inner" THEN <<>> ELSE InnerPoly(k))>> }
        \cup (IF kind = "no_outer" THEN {}
              ELSE { <<outer_path(row.original_id, n),
                       ContourFile(IF kind = "empty_outer" THEN <<>> ELSE OuterPoly(k))>> })

\* The file system holding the (path, content) pairs of files.
disk_of(files) ==
    [p \in {x[1] : x \in files} |-> (CHOOSE x \in files : x[1] = p)[2]]

\* The data sets of one patient: its frames 1..n, each of some kind, only the
\* last MaxDefects of them possibly not "good" (reset() brings them to any
\* place of the catalog).
PatientSets(row) ==
    { UNION { frame_files(row, k, kinds[k]) : k \in DOMAIN kinds } :
        kinds \in { ks \in UNION { [1..n -> FrameKinds] : n \in 0..MaxFrames } :
                      \A k \in DOMAIN ks : ks[k] # "good" => k > Len(ks) - MaxDefects } }

\* The sampler's runs: one patient, any such data set, any batch size, single-
\* and dual-contour mode.
Init ==
    /\ link_csv = <<Row(1)>>
    /\ \E files \in PatientSets(Row(1)) : disk = disk_of(files)
    /\ \E bs \in 1..MaxBS, both \in {"None", "True"} :
           call = [base_dir |-> base_dir, batch_size |-> bs, both_contours |-> both,
                   patient_subset |-> NoSubset]
    /\ pc = "new"
    /\ patients = None
    /\ _bs = None
    /\ _both_contours = None
    /\ _pos = None
    /\ _samples = None
    /\ epoch = <<>>
    /\ last_reset = "never"
    /\ threads = <<>>
    /\ overlapped = FALSE

\* Files of a contour directory that are not named as the data set names them:
\* another first token, fewer than three tokens, another extension.
odd_inner_path(cid, n) ==
    base_dir \o <<"/">> \o s_contourfiles \o <<"/">> \o cid \o <<"/">> \o s_i_contours
        \o <<"/", "X", "X", "-">> \o s_0001 \o <<"-">> \o fmt_04d(n) \o <<"-">>
        \o s_icontour \o s_manual_txt
odd_outer_path(cid, n) ==
    base_dir \o <<"/">> \o s_contourfiles \o <<"/">> \o cid \o <<"/">> \o s_o_contours
        \o <<"/", "X", "X", "-">> \o s_0001 \o <<"-">> \o fmt_04d(n) \o <<"-">>
        \o s_ocontour \o s_manual_txt
short_inner_path(cid) ==
    base_dir \o <<"/">> \o s_contourfiles \o <<"/">> \o cid \o <<"/">> \o s_i_contours
        \o <<"/">> \o s_IM \o <<"-">> \o s_0001 \o <<".", "t", "x", "t">>
bak_inner_path(cid, n) == inner_path(cid, n) \o <<".", "b", "a", "k">>

\* The files a layout of patient `row` is chosen from.
LayoutPool(row) ==
    LET did == row.patient_id
        cid == row.original_id
    IN  { <<inner_path(cid, FrameNo(1)), ContourFile(InnerPoly(1))>>,
          <<inner_path(cid, FrameNo(2)), ContourFile(InnerPoly(2))>>,
          <<odd_inner_path(cid, FrameNo(1)), ContourFile(InnerPoly(3))>>,
          <<short_inner_path(cid), ContourFile(InnerPoly(4))>>,
          <<bak_inner_path(cid, FrameNo(2)), ContourFile(InnerPoly(2))>>,
          <<outer_path(cid, FrameNo(1)), ContourFile(OuterPoly(1))>>,
          <<outer_path(cid, FrameNo(2)), ContourFile(OuterPoly(2))>>,
          <<odd_outer_path(cid, FrameNo(1)), ContourFile(OuterPoly(3))>>,
          <<dicom_path(did, FrameNo(1)), DicomFile(Shape)>>,
          <<dicom_path(did, FrameNo(2)), DicomFile(Shape)>> }

\* The indexes: up to MaxRows rows, each one of two patients.
Indexes == UNION { [1..n -> {Row(1), Row(2)}] : n \in 0..MaxRows }

\* The patient_subset arguments: none, or positions among 0..MaxRows (the last
\* one lies outside every index).
Subsets == {NoSubset} \cup { Subset(S) : S \in SUBSET (0..MaxRows) }

\* Construction over any index and subset, the first patient holding two
\* frames and the second one a frame without outer contour.
InitIndex ==
    /\ link_csv \in Indexes
    /\ disk = disk_of(frame_files(Row(1), 1, "good") \cup frame_files(Row(1), 2, "good")
                          \cup frame_files(Row(2), 1, "no_outer"))
    /\ \E s \in Subsets, both \in {"None", "True", "False"} :
           call = [base_dir |-> base_dir, batch_size |-> 1, both_contours |-> both,
                   patient_subset |-> s]

\* Construction over any layout of the files of one patient.
InitLayout ==
    /\ link_csv = <<Row(1)>>
    /\ \E files \in SUBSET LayoutPool(Row(1)) : disk = disk_of(files)
    /\ \E both \in {"None", "True", "False"} :
           call = [base_dir |-> base_dir, batch_size |-> 1, both_contours |-> both,
                   patient_subset |-> NoSubset]

InitBuild ==
    /\ InitIndex \/ InitLayout
    /\ pc = "new"
    /\ patients = None
    /\ _bs = None
    /\ _both_contours = None
    /\ _pos = None
    /\ _samples = None
    /\ epoch = <<>>
    /\ last_reset = "never"
    /\ threads = <<>>
    /\ overlapped = FALSE

SpecBuild == InitBuild /\ [][Construct]_vars

Step == Construct \/ Next \/ Reset

Spec == Init /\ [][Step]_vars

\* The data sets two threads share: frames 1..n.
ThreadSets(row) ==
    { UNION { frame_files(row, k, "good") : k \in 1..n } : n \in 1..MaxThreadFrames }

\* Two threads share a loader in single-contour mode.
InitThreads ==
    /\ link_csv = <<Row(1)>>
    /\ \E files \in ThreadSets(Row(1)) : disk = disk_of(files)
    /\ \E bs \in 1..MaxBS :
           call = [base_dir |-> base_dir, batch_size |-> bs, both_contours |-> "None",
                   patient_subset |-> NoSubset]
    /\ pc = "new"
    /\ patients = None
    /\ _bs = None
    /\ _both_contours = None
    /\ _pos = None
    /\ _samples = None
    /\ epoch = <<>>
    /\ last_reset = "never"
    /\ threads = [t \in Threads |-> idle_frame(0, FALSE)]
    /\ overlapped = FALSE

ThreadStep ==
    \/ Construct
    \/ \E t \in Threads : thread_call(t)
    \/ \E t \in Threads : next_check(t)
    \/ \E t \in Threads : next_fetch(t)
    \/ \E t \in Threads : next_item(t)
    \/ \E t \in Threads : next_inc_read(t)
    \/ \E t \in Threads : next_inc_write(t)
    \/ \E t \in Threads : reset_shuffle(t)
    \/ \E t \in Threads : reset_pos(t)

SpecThreads == InitThreads /\ [][ThreadStep]_vars

\* The size of the data set the tests load, and the batch size they ask for.
TestFrames == 4
TestBatch  == 2

\* The sampler over a data set of the tests' size, one image of which may have
\* another shape than the others.
InitTestData ==
    /\ link_csv = <<Row(1)>>
    /\ \E kind \in {"good", "odd_shape"} :
           disk = disk_of(UNION { frame_files(Row(1), k, IF k = TestFrames THEN kind ELSE "good") :
                                    k \in 1..TestFrames })
    /\ call = [base_dir |-> base_dir, batch_size |-> TestBatch, both_contours |-> "None",
               patient_subset |-> NoSubset]
    /\ pc = "new"
    /\ patients = None
    /\ _bs = None
    /\ _both_contours = None
    /\ _pos = None
    /\ _samples = None
    /\ epoch = <<>>
    /\ last_reset = "never"
    /\ threads = <<>>
    /\ overlapped = FALSE

SpecTestData == InitTestData /\ [][Step]_vars

\* A freshly constructed loader on which reset() is never called.
SpecFresh == InitBuild /\ [][Construct \/ Next]_vars

(***************************************************************************)
(* Properties                                                              *)
(***************************************************************************)

\* The loads of a next() call that gave a sample, and how many they are.
loaded(e) == { m \in DOMAIN e.loads : e.loads[m].ret[1] # None }
successes(e) == Cardinality(loaded(e))

\* The epoch has met its first EPOCH_END, as the call FirstEnd.
HasEnd == \E i \in DOMAIN epoch : epoch[i].ret = None
FirstEnd == CHOOSE i \in DOMAIN epoch :
                epoch[i].ret = None /\ \A j \in 1..(i - 1) : epoch[j].ret # None

\* Read off the disk: every sample of the catalog has a decodable image and
\* non-empty contours, and the images have one shape.
Loadable(s) ==
    /\ disk[s[3]].kind = "dicom"
    /\ disk[s[1]].coords # <<>>
    /\ s[2] # None => disk[s[2]].coords # <<>>
AllLoadable ==
    /\ \A p \in DOMAIN _samples : Loadable(_samples[p])
    /\ \A p, q \in DOMAIN _samples : disk[_samples[p][3]].shape = disk[_samples[q][3]].shape

\* An array that stacks n arrays.
Stacks(a, n) == a[1] = "ndarray" /\ Len(a[2]) >= 1 /\ a[2][1] = n /\ Len(a[3]) = n

\* C1: every value next() returned is EPOCH_END or a batch of exactly batch_size
\* (>= 1) samples in each of its stacked arrays, and a call that ran out of
\* catalog with fewer than batch_size samples collected returned EPOCH_END.
C1_NoShortBatch ==
    pc = "ready" =>
        /\ _bs >= 1
        /\ \A i \in DOMAIN epoch :
             LET e == epoch[i]
             IN  /\ e.ret # None =>
                       /\ Len(e.ret) = 3
                       /\ Stacks(e.ret[1], _bs)
                       /\ Stacks(e.ret[2], _bs)
                       /\ e.ret[3] # None => Stacks(e.ret[3], _bs)
                 /\ successes(e) < _bs => e.ret = None

\* C1 witness: a call collected some samples, fewer than batch_size, and
\* returned EPOCH_END, after a call that returned a batch.
C1_Witness ==
    /\ pc = "ready"
    /\ \E i, j \in DOMAIN epoch :
         /\ i < j
         /\ epoch[i].ret # None
         /\ epoch[j].ret = None
         /\ 0 < successes(epoch[j])
         /\ successes(epoch[j]) < _bs

\* C2 as claimed: an epoch run from cursor 0 to its first EPOCH_END returned
\* exactly floor(N / B) batches.
C2_ExactlyFloorBatches ==
    (pc = "ready" /\ HasEnd) => FirstEnd - 1 = size \div _bs

\* C2 amended: such an epoch returned at most floor(N / B) batches, and exactly
\* floor(N / B) when every sample of the catalog loads and all images have one
\* shape.
C2_AtMostFloorBatches ==
    (pc = "ready" /\ HasEnd) =>
        /\ FirstEnd - 1 <= size \div _bs
        /\ AllLoadable => FirstEnd - 1 = size \div _bs

\* C2 witness: a finished epoch over a loadable catalog whose size is no multiple
\* of the batch size, with at least one batch.
C2_Witness ==
    /\ pc = "ready"
    /\ HasEnd
    /\ AllLoadable
    /\ size % _bs # 0
    /\ FirstEnd - 1 = size \div _bs
    /\ FirstEnd > 1

\* The slots <<call, place>> of the batches returned before the first EPOCH_END
\* that hold the image and the inner mask of the sample s.
SlotsOf(s) ==
    { c \in (1..(FirstEnd - 1)) \X (1.._bs) :
        LET r == epoch[c[1]].ret
        IN  /\ r[1][3][c[2]] = ndarray(disk[s[3]].shape, s[3])
            /\ r[2][3][c[2]][3] = disk[s[1]].coords }

\* C3: when N is a multiple of B and every sample loads, with one shape, the
\* batches of a finished epoch hold every descriptor of the catalog in exactly
\* one slot.
C3_ExactlyOnce ==
    (pc = "ready" /\ HasEnd /\ AllLoadable /\ size % _bs = 0) =>
        \A p \in DOMAIN _samples : Cardinality(SlotsOf(_samples[p])) = 1

\* C3 witness: such an epoch, finished, with a batch of several samples.
C3_Witness ==
    /\ pc = "ready"
    /\ HasEnd
    /\ AllLoadable
    /\ size % _bs = 0
    /\ _bs > 1
    /\ FirstEnd > 1

\* The loads of the epoch's calls, in the order they were made.
RECURSIVE loads_upto(_)
loads_upto(i) == IF i = 0 THEN <<>> ELSE loads_upto(i - 1) \o epoch[i].loads
fetched == loads_upto(Len(epoch))

IsArray(a) == Len(a) = 3 /\ a[1] = "ndarray"

\* C4: the k-th descriptor fetched since the epoch began is the one at cursor
\* k - 1, whether or not the loads before it failed, and the cursor stands
\* behind the last one fetched (one step per fetch, none fetched twice); a
\* returned batch holds exactly the samples its call's successful loads gave,
\* so a failed load adds nothing to it.
C4_ConsumedOnce ==
    pc = "ready" =>
        /\ _pos = Len(fetched)
        /\ \A m \in DOMAIN fetched :
             fetched[m].at = m - 1 /\ fetched[m].sample = _samples[m]
        /\ \A i \in DOMAIN epoch :
             LET e == epoch[i]
             IN  e.ret # None =>
                   /\ Len(e.ret) = 3
                   /\ IsArray(e.ret[1]) /\ e.ret[1][3] = given(e.loads, 1)
                   /\ IsArray(e.ret[2]) /\ e.ret[2][3] = given(e.loads, 2)
                   /\ \A m \in DOMAIN e.ret[1][3] : e.ret[1][3][m] # None

\* C4 witness: a call moved over a failed load, went on to later descriptors
\* and returned a batch.
C4_Witness ==
    /\ pc = "ready"
    /\ \E i \in DOMAIN epoch :
         /\ epoch[i].ret # None
         /\ \E m \in DOMAIN epoch[i].loads :
              /\ epoch[i].loads[m].ret[1] = None
              /\ m < Len(epoch[i].loads)

\* How often x occurs in the list l.
count(l, x) == Cardinality({ i \in DOMAIN l : l[i] = x })
SameBag(a, b) ==
    /\ Len(a) = Len(b)
    /\ \A i \in DOMAIN a : count(a, a[i]) = count(b, a[i])

\* C5: a reset() (the step that starts a new epoch) leaves the catalog a
\* permutation of what it was and the cursor at 0; a next() leaves the catalog
\* as it was.
C5_ResetPermutes ==
    [][pc = "ready" =>
          /\ SameBag(_samples, _samples')
          /\ epoch' = <<>> => _pos' = 0
          /\ epoch' # <<>> => _samples' = _samples]_vars

\* C5 witness: a reset() has put the catalog, which was built in sorted order,
\* in another order.
C5_Witness ==
    /\ pc = "ready"
    /\ _pos = 0
    /\ epoch = <<>>
    /\ Len(_samples) > 2
    /\ str_lt(_samples[2][1], _samples[1][1])

\* The successful loads of a call gave images of more than one shape.
Mixed(e) ==
    \E m, n \in loaded(e) : shape_of(e.loads[m].ret[1]) # shape_of(e.loads[n].ret[1])

\* C6: a returned batch has arrays of one shape (B, H, W), stacking samples of
\* shape (H, W); a call that collected batch_size samples of more than one
\* shape returned the EPOCH_END value.
C6_ShapeMismatch ==
    pc = "ready" =>
        \A i \in DOMAIN epoch :
           LET e == epoch[i]
           IN  /\ e.ret # None =>
                     /\ Len(e.ret) = 3
                     /\ IsArray(e.ret[1]) /\ IsArray(e.ret[2])
                     /\ Len(e.ret[1][2]) = 3
                     /\ e.ret[1][2][1] = _bs
                     /\ e.ret[2][2] = e.ret[1][2]
                     /\ e.ret[3] # None => (IsArray(e.ret[3]) /\ e.ret[3][2] = e.ret[1][2])
                     /\ \A f \in 1..3 : e.ret[f] # None =>
                          \A m \in DOMAIN e.ret[f][3] :
                             shape_of(e.ret[f][3][m]) = SubSeq(e.ret[1][2], 2, 3)
               /\ (successes(e) = _bs /\ Mixed(e)) => e.ret = None

\* C6 witness: a call collected batch_size samples of two shapes and returned
\* the EPOCH_END value.
C6_Witness ==
    /\ pc = "ready"
    /\ \E i \in DOMAIN epoch :
         /\ successes(epoch[i]) = _bs
         /\ Mixed(epoch[i])
         /\ epoch[i].ret = None

\* The rows of the index the patient_subset argument keeps (1-based places of
\* the rows whose 0-based position is in the subset; all rows without a subset).
Retained ==
    { i \in DOMAIN link_csv :
        ~call.patient_subset.given \/ (i - 1) \in call.patient_subset.items }

\* Dual-contour mode was asked for.
Dual == call.both_contours = "True"

\* The inner-contour files a patient's directory can hold under a name with a
\* frame number, each with its sibling outer-contour file and its image file.
Triples(row) ==
    UNION { { [ci |-> inner_path(row.original_id, FrameNo(k)),
               co |-> outer_path(row.original_id, FrameNo(k)),
               d  |-> dicom_path(row.patient_id, FrameNo(k))],
              [ci |-> odd_inner_path(row.original_id, FrameNo(k)),
               co |-> odd_outer_path(row.original_id, FrameNo(k)),
               d  |-> dicom_path(row.patient_id, FrameNo(k))] } : k \in 1..MaxFrames }

Matched(t) == t.d \in DOMAIN disk /\ (Dual => t.co \in DOMAIN disk)
Descriptor(t) == <<t.ci, IF Dual THEN t.co ELSE None, t.d>>

\* Read off the disk and the arguments: the inner-contour files of the retained
\* rows that have their image and, in dual mode, their outer contour.
MatchCount ==
    Cardinality(UNION { { <<i, t>> : t \in { u \in Triples(link_csv[i]) :
                                                u.ci \in DOMAIN disk /\ Matched(u) } } :
                        i \in Retained })

\* C7: once constructed, the catalog holds the descriptor of an inner-contour
\* file of a retained patient exactly if its image file exists and, in dual
\* mode, its outer-contour file too; it holds nothing else; outer paths are
\* absent in single mode and present in dual mode; size() counts the matches.
C7_CatalogMembership ==
    pc = "ready" =>
        /\ \A i \in Retained : \A t \in Triples(link_csv[i]) :
             t.ci \in DOMAIN disk =>
                 ((\E p \in DOMAIN _samples : _samples[p] = Descriptor(t)) <=> Matched(t))
        /\ \A p \in DOMAIN _samples :
             /\ Dual <=> _samples[p][2] # None
             /\ \E i \in Retained : \E t \in Triples(link_csv[i]) :
                  t.ci \in DOMAIN disk /\ _samples[p] = Descriptor(t)
        /\ size = MatchCount

\* C7 witness: in dual mode the catalog holds a descriptor, and leaves out one
\* inner-contour file for its missing outer contour and one for its missing
\* image.
C7_Witness ==
    /\ pc = "ready"
    /\ Dual
    /\ size >= 1
    /\ \E i \in Retained : \E t, u \in Triples(link_csv[i]) :
         /\ t.ci \in DOMAIN disk /\ t.d \in DOMAIN disk /\ t.co \notin DOMAIN disk
         /\ u.ci \in DOMAIN disk /\ u.d \notin DOMAIN disk

\* C8: the patient records read are the rows at the positions the subset holds
\* (all rows without a subset), in file order.
C8_PatientSubset ==
    pc # "new" =>
        LET P == { i - 1 : i \in Retained }
        IN  /\ Len(patients) = Cardinality(P)
            /\ \A j \in DOMAIN patients :
                 LET i == CHOOSE x \in P : Cardinality({ y \in P : y < x }) = j - 1
                 IN  patients[j] = <<link_csv[i + 1].patient_id, link_csv[i + 1].original_id>>

\* C8 witness: a subset that holds a position outside the index kept some rows
\* and dropped others.
C8_Witness ==
    /\ pc # "new"
    /\ call.patient_subset.given
    /\ \E x \in call.patient_subset.items : x >= Len(link_csv)
    /\ 0 < Len(patients)
    /\ Len(patients) < Len(link_csv)
    /\ patients[1] # <<link_csv[1].patient_id, link_csv[1].original_id>>

\* The FAILURE value of the sample loader.
Failure == <<None, None, None>>

\* C9: a load returned FAILURE when the image could not be decoded (and then no
\* contour file was parsed), when the inner contour was empty, or when the
\* descriptor has an outer path and the outer contour was empty; otherwise it
\* returned the image, an inner mask of the image's (height, width), and an
\* outer mask of that shape exactly when the descriptor has an outer path.
C9_LoadOutcome ==
    pc = "ready" =>
        \A m \in DOMAIN fetched :
           LET l  == fetched[m]
               ci == l.sample[1]
               co == l.sample[2]
               d  == l.sample[3]
           IN  IF disk[d].kind # "dicom"
               THEN l.ret = Failure /\ l.parsed = <<d>>
               ELSE IF disk[ci].coords = <<>> \/ (co # None /\ disk[co].coords = <<>>)
               THEN l.ret = Failure
               ELSE /\ l.ret[1] = ndarray(disk[d].shape, d)
                    /\ IsArray(l.ret[2])
                    /\ l.ret[2][2] = disk[d].shape
                    /\ l.ret[3] # None <=> co # None
                    /\ l.ret[3] # None => (IsArray(l.ret[3]) /\ l.ret[3][2] = disk[d].shape)

\* C9 witness: one load failed on the image without parsing a contour, another
\* gave a sample with an outer mask.
C9_Witness ==
    /\ pc = "ready"
    /\ \E m, n \in DOMAIN fetched :
         /\ fetched[m].ret = Failure
         /\ fetched[m].parsed = <<fetched[m].sample[3]>>
         /\ fetched[n].ret[3] # None

\* C10: size() is the number of samples matched at construction, in every state
\* next() and reset() lead to, wherever the cursor stands and however many
\* loads failed.
C10_SizeStable ==
    pc = "ready" => size = MatchCount

\* C10 witness: after a reset() reordered the catalog, next() calls moved the
\* cursor to the end of it, one of their loads failing.
C10_Witness ==
    /\ pc = "ready"
    /\ size > 1
    /\ _pos = size
    /\ str_lt(_samples[2][1], _samples[1][1])
    /\ \E m \in DOMAIN fetched : fetched[m].ret = Failure

\* C11: the third element of a returned batch is None in single-contour mode;
\* in dual-contour mode it stacks batch_size outer masks, the ones the call's
\* successful loads gave, each of the shape of its image, and every sample a
\* call collected has an outer mask.
C11_OuterMasks ==
    pc = "ready" =>
        \A i \in DOMAIN epoch :
           LET e == epoch[i]
           IN  /\ e.ret # None =>
                     IF _both_contours
                     THEN /\ Stacks(e.ret[3], _bs)
                          /\ e.ret[3][3] = given(e.loads, 3)
                          /\ \A m \in DOMAIN e.ret[3][3] :
                               /\ IsArray(e.ret[3][3][m])
                               /\ shape_of(e.ret[3][3][m]) = shape_of(e.ret[1][3][m])
                     ELSE e.ret[3] = None
               /\ _both_contours => \A m \in loaded(e) : e.loads[m].ret[3] # None

\* C11 witness: in dual-contour mode a call moved over a sample whose outer
\* contour is empty and returned a batch of several samples.
C11_Witness ==
    /\ pc = "ready"
    /\ _both_contours = TRUE
    /\ _bs > 1
    /\ \E i \in DOMAIN epoch :
         /\ epoch[i].ret # None
         /\ \E m \in DOMAIN epoch[i].loads :
              /\ epoch[i].loads[m].ret = Failure
              /\ Len(epoch[i].loads[m].parsed) = 3

\* The successful loads <<call, load>> of the calls of the epoch that returned a
\* batch, and a descriptor lying in two of them.
Placed ==
    { c \in UNION { {i} \X DOMAIN epoch[i].loads : i \in DOMAIN epoch } :
        Len(epoch[c[1]].ret) = 3 /\ epoch[c[1]].loads[c[2]].ret[1] # None }
Overlap ==
    \E c, d \in Placed :
        c # d /\ epoch[c[1]].loads[c[2]].sample = epoch[d[1]].loads[d[2]].sample
CursorInBounds == 0 <= _pos /\ _pos <= Len(_samples)

\* C12: with two threads calling next() and reset() on one loader, a state in
\* which a descriptor lies in two batches of one epoch and the cursor is outside
\* 0..len(catalog) is reachable (C12_Witness); such states come about only in
\* runs in which a call was started while another call was in progress.
C12_UnsafeOnlyWhenInterleaved ==
    pc = "ready" => ((Overlap \/ ~CursorInBounds) => overlapped)

\* C12 witness: two next() calls have returned batches holding one descriptor,
\* and the cursor stands behind the end of the catalog.
C12_Witness ==
    /\ pc = "ready"
    /\ Overlap
    /\ _pos > Len(_samples)

C14_CursorBounds ==
    pc = "ready" => (_pos \in Int /\ CursorInBounds)

\* C14 witness: with a batch size larger than the catalog, next() moved the
\* cursor to the end of the catalog, and was called again there.
C14_Witness ==
    /\ pc = "ready"
    /\ Len(_samples) > 0
    /\ _bs > Len(_samples)
    /\ _pos = Len(_samples)
    /\ Len(epoch) > 1

\* C15: a next() call leaves the cursor where it was or further on and the
\* catalog in the order it was; a step that moves the cursor back is a reset(),
\* and moves it to 0.
C15_CursorMonotonic ==
    [][/\ Next => (_pos' >= _pos /\ _samples' = _samples)
       /\ (pc = "ready" /\ _pos' < _pos) => (Reset /\ _pos' = 0)]_vars

\* C15 witness: after a reset() that changed the order, next() calls moved
\* the cursor from 0 to the end of a catalog of several samples.
C15_Witness ==
    /\ pc = "ready"
    /\ last_reset = "changed"
    /\ Len(epoch) > 1
    /\ _pos = Len(_samples)

\* C16 as claimed: after a call of the epoch returned EPOCH_END, every later
\* call of the epoch returned EPOCH_END and loaded nothing (the cursor stayed).
C16_EndIsFinal ==
    pc = "ready" =>
        \A i, j \in DOMAIN epoch :
           (i < j /\ epoch[i].ret = None) =>
               (epoch[j].ret = None /\ epoch[j].loads = <<>>)

\* C16 amended: after a call returned EPOCH_END with fewer than batch_size
\* samples collected (the cursor had reached the end of the catalog), every
\* later call of the epoch returned EPOCH_END and loaded nothing, the cursor
\* staying at the end; a batch that follows an EPOCH_END follows one returned
\* for batch_size samples of more than one shape.
C16_EndOfCatalogIsFinal ==
    pc = "ready" =>
        \A i, j \in DOMAIN epoch :
           (i < j /\ epoch[i].ret = None) =>
               IF successes(epoch[i]) < _bs
               THEN epoch[j].ret = None /\ epoch[j].loads = <<>> /\ _pos = Len(_samples)
               ELSE Mixed(epoch[i])

\* C16 witness: a call returned EPOCH_END for a batch of two shapes, the next
\* one returned a batch, and the calls after it found the catalog at its end.
C16_Witness ==
    /\ pc = "ready"
    /\ \E i, j, k \in DOMAIN epoch :
         /\ i < j /\ j < k /\ k < Len(epoch)
         /\ epoch[i].ret = None /\ Mixed(epoch[i])
         /\ epoch[j].ret # None
         /\ epoch[k].ret = None /\ successes(epoch[k]) < _bs

\* C17 as claimed: whatever the inner-contour files are named, the constructor
\* returns (it does not raise), and a file whose name departs from
\* IM-0001-<frame>-icontour-manual is in the catalog exactly if its image and,
\* in dual mode, its outer contour exist.
C17_NoHardFailure ==
    pc # "new" =>
        /\ pc = "ready"
        /\ \A i \in Retained : \A t \in Triples(link_csv[i]) :
             t.ci \in DOMAIN disk =>
                 ((\E p \in DOMAIN _samples : _samples[p] = Descriptor(t)) <=> Matched(t))

\* The k-th retained row of the index, the descriptors of its inner-contour
\* files that have their image (and outer contour, in dual mode), and the
\* number of descriptors of the retained rows before it.
NthRetained(k) == CHOOSE i \in Retained : Cardinality({ j \in Retained : j < i }) = k - 1
DescriptorsOf(i) ==
    { Descriptor(t) : t \in { u \in Triples(link_csv[i]) : u.ci \in DOMAIN disk /\ Matched(u) } }
RECURSIVE Offset(_)
Offset(k) == IF k = 1 THEN 0 ELSE Offset(k - 1) + Cardinality(DescriptorsOf(NthRetained(k - 1)))

C19_NextTerminates ==
    pc = "ready" =>
        \A i \in DOMAIN epoch :
           LET L == epoch[i].loads
           IN  L # <<>> =>
                  /\ L[1].at = Len(loads_upto(i - 1))
                  /\ Len(L) <= Len(_samples) - L[1].at
                  /\ \A m \in 1..(Len(L) - 1) : L[m + 1].at = L[m].at + 1
                  /\ L[Len(L)].at < _pos

\* C19 witness: a call that started behind the head of the catalog made
\* len(catalog) - cursor loads, several, one of which failed, and returned.
C19_Witness ==
    /\ pc = "ready"
    /\ \E i \in DOMAIN epoch :
         LET L == epoch[i].loads
         IN  /\ Len(L) > 1
             /\ L[1].at > 0
             /\ Len(L) = Len(_samples) - L[1].at
             /\ \E m \in DOMAIN L : L[m].ret = Failure

====
